---- MODULE Spec2Model ----
(***************************************************************************)
(* A model of speedwagon's src/lib.rs: the accessory state RSNavState with *)
(* its nine control operations and its 2-byte serialization, the Version   *)
(* packing, the Identify codec and the Packet codec.                       *)
(*                                                                         *)
(* Writers are in-memory byte buffers (Vec<u8>): every write appends all   *)
(* of its bytes and never fails.  Readers are in-memory byte slices: a     *)
(* read fails (UnexpectedEof) exactly when fewer bytes are left than the   *)
(* read asks for.  Bytes are naturals below 256, a u16 is a natural below  *)
(* 65536.  A String is the sequence of its UTF-8 bytes.                    *)
(***************************************************************************)
EXTENDS Naturals, Sequences, FiniteSets

VARIABLES
    state,       \* the RSNavState of the session
    forced,      \* the outputs a force_* operation has been called on
    version_in,  \* the arguments handed to Version::new
    identify,    \* the Identify value handed to Identify::serialize
    packet,      \* the Packet handed to Packet::serialize
    writer,      \* the bytes a serialize call has written
    reader,      \* the bytes handed to a deserialize call
    result,      \* what the last call returned
    pc           \* the caller's position

vars == <<state, forced, version_in, identify, packet, writer, reader, result, pc>>

(***************************************************************************)
(* Machine arithmetic: the operators <<, >>, | and & of lib.rs on          *)
(* unsigned integers of a given width.                                     *)
(***************************************************************************)
RECURSIVE BitAnd(_, _)
BitAnd(a, b) ==
    IF a = 0 \/ b = 0 THEN 0
    ELSE (a % 2) * (b % 2) + 2 * BitAnd(a \div 2, b \div 2)

RECURSIVE BitOr(_, _)
BitOr(a, b) ==
    IF a = 0 THEN b
    ELSE IF b = 0 THEN a
    ELSE (IF a % 2 = 1 \/ b % 2 = 1 THEN 1 ELSE 0)
         + 2 * BitOr(a \div 2, b \div 2)

\* x << n on an unsigned integer of w bits
Shl(x, n, w) == (x * (2 ^ n)) % (2 ^ w)

\* x >> n
Shr(x, n) == x \div (2 ^ n)

\* `b as u8` of a bool
BoolAsU8(b) == IF b THEN 1 ELSE 0

\* `x as u8` of a wider unsigned integer
AsU8(x) == x % 256

None == [kind |-> "None"]

(***************************************************************************)
(* RSNavState (lib.rs 419-513): the nine flags and the control operations. *)
(***************************************************************************)
RSNavStates ==
    [led_bar : BOOLEAN, led_bar_low_mode : BOOLEAN, high_beam : BOOLEAN,
     led_bar_active : BOOLEAN, reverse_camera : BOOLEAN,
     reverse_lights : BOOLEAN, reverse : BOOLEAN,
     reverse_lights_active : BOOLEAN, trunk_lights : BOOLEAN]

new ==
    [led_bar |-> FALSE, led_bar_low_mode |-> FALSE, high_beam |-> FALSE,
     led_bar_active |-> FALSE, reverse_camera |-> FALSE,
     reverse_lights |-> FALSE, reverse |-> FALSE,
     reverse_lights_active |-> FALSE, trunk_lights |-> FALSE]

\* Mutant of set_led_bar_active: deactivation forgets to switch the bar off.
set_led_bar_active_keeps_bar(self, on) ==
    LET s1 == [self EXCEPT !.led_bar_active = on]
    IN  IF s1.led_bar_active
        THEN [s1 EXCEPT !.led_bar = s1.high_beam]
        ELSE s1

set_led_bar_active(self, on) ==
    LET s1 == [self EXCEPT !.led_bar_active = on]
    IN  IF s1.led_bar_active
        THEN [s1 EXCEPT !.led_bar = s1.high_beam]
        ELSE [s1 EXCEPT !.led_bar = FALSE]

\* Mutant of set_led_bar_low_mode: the flag is toggled instead of set.
set_led_bar_low_mode_toggles(self, on) ==
    [self EXCEPT !.led_bar_low_mode = ~self.led_bar_low_mode]

\* Mutant of set_led_bar_low_mode: the operation also re-derives led_bar
\* from led_bar_active and high_beam.
set_led_bar_low_mode_rederives(self, on) ==
    [self EXCEPT !.led_bar_low_mode = on,
                 !.led_bar = self.led_bar_active /\ self.high_beam]

set_led_bar_low_mode(self, on) == [self EXCEPT !.led_bar_low_mode = on]

force_led_bar(self, on) == [self EXCEPT !.led_bar = on]

\* Mutant of set_trunk_lights: the body of set_led_bar_low_mode, copied and
\* not renamed.
set_trunk_lights_writes_low_mode(self, on) ==
    [self EXCEPT !.led_bar_low_mode = on]

set_trunk_lights(self, on) == [self EXCEPT !.trunk_lights = on]

\* Mutant of set_reverse_lights_active: activation leaves the lights alone.
set_reverse_lights_active_no_derive(self, on) ==
    LET s1 == [self EXCEPT !.reverse_lights_active = on]
    IN  IF s1.reverse_lights_active
        THEN s1
        ELSE [s1 EXCEPT !.reverse_lights = FALSE]

set_reverse_lights_active(self, on) ==
    LET s1 == [self EXCEPT !.reverse_lights_active = on]
    IN  IF s1.reverse_lights_active
        THEN [s1 EXCEPT !.reverse_lights = s1.reverse]
        ELSE [s1 EXCEPT !.reverse_lights = FALSE]

force_reverse_lights(self, on) == [self EXCEPT !.reverse_lights = on]

force_reverse_camera(self, on) == [self EXCEPT !.reverse_camera = on]

\* Mutant of reverse: leaving reverse forgets the camera.
reverse_keeps_camera(self, on) ==
    LET s1 == [self EXCEPT !.reverse = on]
    IN  IF ~s1.reverse
        THEN [s1 EXCEPT !.reverse_lights = FALSE]
        ELSE LET s2 == [s1 EXCEPT !.reverse_camera = TRUE]
             IN  IF s2.reverse_lights_active
                 THEN [s2 EXCEPT !.reverse_lights = TRUE]
                 ELSE s2

\* Mutant of reverse: entering reverse lights the reverse lights whether or
\* not they are activated.
reverse_lights_regardless(self, on) ==
    LET s1 == [self EXCEPT !.reverse = on]
    IN  IF ~s1.reverse
        THEN [s1 EXCEPT !.reverse_lights = FALSE, !.reverse_camera = FALSE]
        ELSE [s1 EXCEPT !.reverse_camera = TRUE, !.reverse_lights = TRUE]

reverse(self, on) ==
    LET s1 == [self EXCEPT !.reverse = on]
    IN  IF ~s1.reverse
        THEN [s1 EXCEPT !.reverse_lights = FALSE, !.reverse_camera = FALSE]
        ELSE LET s2 == [s1 EXCEPT !.reverse_camera = TRUE]
             IN  IF s2.reverse_lights_active
                 THEN [s2 EXCEPT !.reverse_lights = TRUE]
                 ELSE s2

\* Mutant of high_beam: switching the high beam off clears the bar only
\* while the bar is activated.
high_beam_off_only_if_active(self, on) ==
    LET s1 == [self EXCEPT !.high_beam = on]
    IN  IF s1.led_bar_active
        THEN [s1 EXCEPT !.led_bar = s1.high_beam]
        ELSE s1

\* Mutant of high_beam: switching the high beam on lights the bar whether
\* or not the bar is activated.
high_beam_ignores_active(self, on) ==
    LET s1 == [self EXCEPT !.high_beam = on]
    IN  [s1 EXCEPT !.led_bar = s1.high_beam]

high_beam(self, on) ==
    LET s1 == [self EXCEPT !.high_beam = on]
    IN  IF s1.high_beam
        THEN IF s1.led_bar_active
             THEN [s1 EXCEPT !.led_bar = TRUE]
             ELSE s1
        ELSE [s1 EXCEPT !.led_bar = FALSE]

(***************************************************************************)
(* The session: one RSNavState, created by new(), mutated only through the *)
(* control operations, each called with either boolean.                    *)
(***************************************************************************)
codecIdle ==
    /\ version_in = None
    /\ identify = None
    /\ packet = None
    /\ writer = <<>>
    /\ reader = <<>>
    /\ result = None

codecUnchanged == UNCHANGED <<version_in, identify, packet, writer, reader, result, pc>>

Init ==
    /\ state = new
    /\ forced = {}
    /\ pc = "session"
    /\ codecIdle

SetLedBarActive ==
    \E on \in BOOLEAN :
        /\ state' = set_led_bar_active(state, on)
        /\ UNCHANGED forced
        /\ codecUnchanged

SetLedBarLowMode ==
    \E on \in BOOLEAN :
        /\ state' = set_led_bar_low_mode(state, on)
        /\ UNCHANGED forced
        /\ codecUnchanged

ForceLedBar ==
    \E on \in BOOLEAN :
        /\ state' = force_led_bar(state, on)
        /\ forced' = forced \cup {"led_bar"}
        /\ codecUnchanged

SetTrunkLights ==
    \E on \in BOOLEAN :
        /\ state' = set_trunk_lights(state, on)
        /\ UNCHANGED forced
        /\ codecUnchanged

SetReverseLightsActive ==
    \E on \in BOOLEAN :
        /\ state' = set_reverse_lights_active(state, on)
        /\ UNCHANGED forced
        /\ codecUnchanged

ForceReverseLights ==
    \E on \in BOOLEAN :
        /\ state' = force_reverse_lights(state, on)
        /\ forced' = forced \cup {"reverse_lights"}
        /\ codecUnchanged

ForceReverseCamera ==
    \E on \in BOOLEAN :
        /\ state' = force_reverse_camera(state, on)
        /\ forced' = forced \cup {"reverse_camera"}
        /\ codecUnchanged

Reverse ==
    \E on \in BOOLEAN :
        /\ state' = reverse(state, on)
        /\ UNCHANGED forced
        /\ codecUnchanged

HighBeam ==
    \E on \in BOOLEAN :
        /\ state' = high_beam(state, on)
        /\ UNCHANGED forced
        /\ codecUnchanged

Next ==
    \/ SetLedBarActive
    \/ SetLedBarLowMode
    \/ ForceLedBar
    \/ SetTrunkLights
    \/ SetReverseLightsActive
    \/ ForceReverseLights
    \/ ForceReverseCamera
    \/ Reverse
    \/ HighBeam

Spec == Init /\ [][Next]_vars

(***************************************************************************)
(* Reading from an in-memory reader (byteorder's read_u8 and read_u16 with *)
(* LittleEndian, std's read_exact): the value read and the bytes left, or  *)
(* a failure when the reader is short.                                     *)
(***************************************************************************)
SubSeqFrom(r, n) == SubSeq(r, n, Len(r))

read_u8(r) ==
    IF Len(r) >= 1
    THEN [ok |-> TRUE, val |-> r[1], rest |-> Tail(r)]
    ELSE [ok |-> FALSE, val |-> 0, rest |-> r]

read_u16_le(r) ==
    IF Len(r) >= 2
    THEN [ok |-> TRUE, val |-> BitOr(r[1], Shl(r[2], 8, 16)),
          rest |-> SubSeqFrom(r, 3)]
    ELSE [ok |-> FALSE, val |-> 0, rest |-> r]

read_exact(r, n) ==
    IF Len(r) >= n
    THEN [ok |-> TRUE, val |-> SubSeq(r, 1, n), rest |-> SubSeqFrom(r, n + 1)]
    ELSE [ok |-> FALSE, val |-> <<>>, rest |-> r]

\* write_u16::<LittleEndian>
write_u16_le(v) == <<v % 256, (v \div 256) % 256>>

\* What a call returns: Err(e) of the Error enum, or a panic (a failed unwrap).
Err(e) == [kind |-> "Err", err |-> e]

Panic == [kind |-> "Panic"]

(***************************************************************************)
(* RSNavState::serialize and RSNavState::deserialize (lib.rs 515-555).     *)
(***************************************************************************)
\* Mutant of RSNavState_serialize: trunk_lights is packed into bit 3, on top
\* of reverse_lights_active.
RSNavState_serialize_trunk_bit3(self) ==
    << BitOr(BitOr(BitOr(Shl(BoolAsU8(self.led_bar), 0, 8),
                         Shl(BoolAsU8(self.led_bar_low_mode), 1, 8)),
                   Shl(BoolAsU8(self.high_beam), 2, 8)),
             Shl(BoolAsU8(self.led_bar_active), 3, 8)),
       BitOr(BitOr(BitOr(BitOr(Shl(BoolAsU8(self.reverse_camera), 0, 8),
                               Shl(BoolAsU8(self.reverse_lights), 1, 8)),
                         Shl(BoolAsU8(self.reverse), 2, 8)),
                   Shl(BoolAsU8(self.reverse_lights_active), 3, 8)),
             Shl(BoolAsU8(self.trunk_lights), 3, 8)) >>

\* The two bytes serialize writes (it then returns Ok(())).
RSNavState_serialize(self) ==
    << BitOr(BitOr(BitOr(Shl(BoolAsU8(self.led_bar), 0, 8),
                         Shl(BoolAsU8(self.led_bar_low_mode), 1, 8)),
                   Shl(BoolAsU8(self.high_beam), 2, 8)),
             Shl(BoolAsU8(self.led_bar_active), 3, 8)),
       BitOr(BitOr(BitOr(BitOr(Shl(BoolAsU8(self.reverse_camera), 0, 8),
                               Shl(BoolAsU8(self.reverse_lights), 1, 8)),
                         Shl(BoolAsU8(self.reverse), 2, 8)),
                   Shl(BoolAsU8(self.reverse_lights_active), 3, 8)),
             Shl(BoolAsU8(self.trunk_lights), 4, 8)) >>

\* Mutant of RSNavState_deserialize: trunk_lights is read as `data >> 4 > 0`,
\* which the bits above bit 4 also set.
RSNavState_deserialize_trunk_shift(r) ==
    LET d0 == read_u8(r)
    IN  IF ~d0.ok THEN Err("StateDeserializeFailed")
        ELSE
        LET d1 == read_u8(d0.rest)
        IN  IF ~d1.ok THEN Err("StateDeserializeFailed")
            ELSE
            [kind |-> "Ok",
             val  |-> [led_bar |-> BitAnd(d0.val, Shl(1, 0, 8)) > 0,
                       led_bar_low_mode |-> BitAnd(d0.val, Shl(1, 1, 8)) > 0,
                       high_beam |-> BitAnd(d0.val, Shl(1, 2, 8)) > 0,
                       led_bar_active |-> BitAnd(d0.val, Shl(1, 3, 8)) > 0,
                       reverse_camera |-> BitAnd(d1.val, Shl(1, 0, 8)) > 0,
                       reverse_lights |-> BitAnd(d1.val, Shl(1, 1, 8)) > 0,
                       reverse |-> BitAnd(d1.val, Shl(1, 2, 8)) > 0,
                       reverse_lights_active |-> BitAnd(d1.val, Shl(1, 3, 8)) > 0,
                       trunk_lights |-> Shr(d1.val, 4) > 0],
             rest |-> d1.rest]

RSNavState_deserialize(r) ==
    LET d0 == read_u8(r)
    IN  IF ~d0.ok THEN Err("StateDeserializeFailed")
        ELSE
        LET d1 == read_u8(d0.rest)
        IN  IF ~d1.ok THEN Err("StateDeserializeFailed")
            ELSE
            [kind |-> "Ok",
             val  |-> [led_bar |-> BitAnd(d0.val, Shl(1, 0, 8)) > 0,
                       led_bar_low_mode |-> BitAnd(d0.val, Shl(1, 1, 8)) > 0,
                       high_beam |-> BitAnd(d0.val, Shl(1, 2, 8)) > 0,
                       led_bar_active |-> BitAnd(d0.val, Shl(1, 3, 8)) > 0,
                       reverse_camera |-> BitAnd(d1.val, Shl(1, 0, 8)) > 0,
                       reverse_lights |-> BitAnd(d1.val, Shl(1, 1, 8)) > 0,
                       reverse |-> BitAnd(d1.val, Shl(1, 2, 8)) > 0,
                       reverse_lights_active |-> BitAnd(d1.val, Shl(1, 3, 8)) > 0,
                       trunk_lights |-> BitAnd(d1.val, Shl(1, 4, 8)) > 0],
             rest |-> d1.rest]

(***************************************************************************)
(* The state codec: a caller serializes any RSNavState into a fresh        *)
(* buffer, hands the bytes to a reader and deserializes them.              *)
(***************************************************************************)
InitNavCodec ==
    /\ state \in RSNavStates
    /\ forced = {}
    /\ pc = "start"
    /\ codecIdle

NavSerialize ==
    /\ pc = "start"
    /\ writer' = RSNavState_serialize(state)
    /\ pc' = "written"
    /\ UNCHANGED <<state, forced, version_in, identify, packet, reader, result>>

NavLoad ==
    /\ pc = "written"
    /\ reader' = writer
    /\ pc' = "loaded"
    /\ UNCHANGED <<state, forced, version_in, identify, packet, writer, result>>

\* Settings of the unused bits: each bit alone, and all of them.
PadSamples0 == {1, 2, 4, 8, 15}

PadSamples1 == {0, 1, 2, 4, 7}

\* The bytes written reach the reader with their unused bits (4..7 of byte
\* 0, 5..7 of byte 1) set by whoever stored them.
NavLoadPadded ==
    /\ pc = "written"
    /\ \E p0 \in PadSamples0, p1 \in PadSamples1 :
           reader' = <<BitOr(writer[1], Shl(p0, 4, 8)),
                       BitOr(writer[2], Shl(p1, 5, 8))>>
    /\ pc' = "loaded"
    /\ UNCHANGED <<state, forced, version_in, identify, packet, writer, result>>

NavDeserialize ==
    /\ pc = "loaded"
    /\ result' = RSNavState_deserialize(reader)
    /\ pc' = "read"
    /\ UNCHANGED <<state, forced, version_in, identify, packet, writer, reader>>

NextNavCodec ==
    \/ NavSerialize
    \/ NavLoad
    \/ NavLoadPadded
    \/ NavDeserialize

SpecNavCodec == InitNavCodec /\ [][NextNavCodec]_vars

(***************************************************************************)
(* Version (lib.rs 332-356): a u16 packing major, minor and patch.         *)
(***************************************************************************)
\* Mutant of Version_new: minor is shifted by 6 instead of 4.
Version_new_minor_shift6(major, minor, patch) ==
    BitOr(BitOr(Shl(BitAnd(major, 63), 10, 16),
                Shl(BitAnd(minor, 63), 6, 16)),
          BitAnd(patch, 15))

Version_new(major, minor, patch) ==
    BitOr(BitOr(Shl(BitAnd(major, 63), 10, 16),
                Shl(BitAnd(minor, 63), 4, 16)),
          BitAnd(patch, 15))

Version_major(self) == AsU8(BitAnd(Shr(self, 10), 63))

Version_minor(self) == AsU8(BitAnd(Shr(self, 4), 63))

Version_patch(self) == AsU8(BitAnd(self, 15))

\* The u8 arguments Version::new is tried on.
U8Samples == {0, 1, 2, 5, 9, 15, 16, 63, 64, 70, 255}

InitVersion ==
    /\ state = new
    /\ forced = {}
    /\ version_in \in [major : U8Samples, minor : U8Samples, patch : U8Samples]
    /\ identify = None
    /\ packet = None
    /\ writer = <<>>
    /\ reader = <<>>
    /\ result = None
    /\ pc = "start"

VersionNew ==
    /\ pc = "start"
    /\ result' = [kind |-> "Version",
                  val  |-> Version_new(version_in.major, version_in.minor,
                                       version_in.patch)]
    /\ pc' = "done"
    /\ UNCHANGED <<state, forced, version_in, identify, packet, writer, reader>>

NextVersion == VersionNew

SpecVersion == InitVersion /\ [][NextVersion]_vars

(***************************************************************************)
(* Identify (lib.rs 365-417).  The name is a String: a sequence of bytes   *)
(* that is well-formed UTF-8; String::from_utf8 accepts exactly those.     *)
(***************************************************************************)
IsCont(b) == b >= 128 /\ b <= 191

\* String::from_utf8(buf).is_ok()
RECURSIVE Utf8Valid(_)
Utf8Valid(buf) ==
    IF buf = <<>> THEN TRUE
    ELSE
    LET b == buf[1]
        n == Len(buf)
    IN  IF b < 128 THEN Utf8Valid(Tail(buf))
        ELSE IF b >= 194 /\ b <= 223
        THEN n >= 2 /\ IsCont(buf[2]) /\ Utf8Valid(SubSeqFrom(buf, 3))
        ELSE IF b >= 224 /\ b <= 239
        THEN /\ n >= 3
             /\ IsCont(buf[2])
             /\ b = 224 => buf[2] >= 160
             /\ b = 237 => buf[2] <= 159
             /\ IsCont(buf[3])
             /\ Utf8Valid(SubSeqFrom(buf, 4))
        ELSE IF b >= 240 /\ b <= 244
        THEN /\ n >= 4
             /\ IsCont(buf[2])
             /\ b = 240 => buf[2] >= 144
             /\ b = 244 => buf[2] <= 143
             /\ IsCont(buf[3])
             /\ IsCont(buf[4])
             /\ Utf8Valid(SubSeqFrom(buf, 5))
        ELSE FALSE

\* The bytes Identify::serialize writes (it then returns Ok(())).
Identify_serialize(self) ==
    write_u16_le(self.version)
        \o <<AsU8(self.num_cmds)>>
        \o <<AsU8(Len(self.name))>>
        \o self.name

\* Mutant of Identify_deserialize: the name is everything left in the
\* stream instead of name_len bytes.
Identify_deserialize_name_to_end(r) ==
    LET version == read_u16_le(r)
    IN  IF ~version.ok THEN Err("IdentifyErrorReadingName")
        ELSE
        LET num_cmds == read_u8(version.rest)
        IN  IF ~num_cmds.ok THEN Err("IdentifyErrorReadingNumCmds")
            ELSE
            LET name_len == read_u8(num_cmds.rest)
            IN  IF ~name_len.ok THEN Err("IdentifyErrorReadingNameLength")
                ELSE
                LET buf == read_exact(name_len.rest, Len(name_len.rest))
                IN  IF ~buf.ok THEN Err("IdentifyErrorReadingName")
                    ELSE IF ~Utf8Valid(buf.val)
                    THEN Err("IdentifyFailedToConvertName")
                    ELSE [kind |-> "Ok",
                          val  |-> [name |-> buf.val,
                                    version |-> version.val,
                                    num_cmds |-> num_cmds.val],
                          rest |-> buf.rest]

Identify_deserialize(r) ==
    LET version == read_u16_le(r)
    IN  IF ~version.ok THEN Err("IdentifyErrorReadingName")
        ELSE
        LET num_cmds == read_u8(version.rest)
        IN  IF ~num_cmds.ok THEN Err("IdentifyErrorReadingNumCmds")
            ELSE
            LET name_len == read_u8(num_cmds.rest)
            IN  IF ~name_len.ok THEN Err("IdentifyErrorReadingNameLength")
                ELSE
                LET buf == read_exact(name_len.rest, name_len.val)
                IN  IF ~buf.ok THEN Err("IdentifyErrorReadingName")
                    ELSE IF ~Utf8Valid(buf.val)
                    THEN Err("IdentifyFailedToConvertName")
                    ELSE [kind |-> "Ok",
                          val  |-> [name |-> buf.val,
                                    version |-> version.val,
                                    num_cmds |-> num_cmds.val],
                          rest |-> buf.rest]

\* The Identify values the codec is tried on: every well-formed name of at
\* most MaxNameLen bytes over NameBytes ('A' and the two bytes of U+00E9).
MaxNameLen == 3

NameBytes == {65, 195, 169}

SeqsUpTo(S, n) == UNION {[1..k -> S] : k \in 0..n}

Names == {b \in SeqsUpTo(NameBytes, MaxNameLen) : Utf8Valid(b)}

VersionSamples == {0, Version_new(5, 2, 9), 65535}

NumCmdsSamples == {0, 3, 255}

Identifies ==
    [name : Names, version : VersionSamples, num_cmds : NumCmdsSamples]

\* What may follow the serialized value in the stream handed to the reader.
Trailers == {<<>>, <<65>>, <<255, 0>>}

InitIdentify ==
    /\ state = new
    /\ forced = {}
    /\ version_in = None
    /\ identify \in Identifies
    /\ packet = None
    /\ writer = <<>>
    /\ reader = <<>>
    /\ result = None
    /\ pc = "start"

IdentifySerialize ==
    /\ pc = "start"
    /\ writer' = Identify_serialize(identify)
    /\ pc' = "written"
    /\ UNCHANGED <<state, forced, version_in, identify, packet, reader, result>>

IdentifyLoad ==
    /\ pc = "written"
    /\ \E t \in Trailers : reader' = writer \o t
    /\ pc' = "loaded"
    /\ UNCHANGED <<state, forced, version_in, identify, packet, writer, result>>

IdentifyDeserialize ==
    /\ pc = "loaded"
    /\ result' = Identify_deserialize(reader)
    /\ pc' = "read"
    /\ UNCHANGED <<state, forced, version_in, identify, packet, writer, reader>>

NextIdentify ==
    \/ IdentifySerialize
    \/ IdentifyLoad
    \/ IdentifyDeserialize

SpecIdentify == InitIdentify /\ [][NextIdentify]_vars

(***************************************************************************)
(* ResponseCode, PacketType and Packet (lib.rs 44-196).                    *)
(***************************************************************************)
NUM_STATUS_BYTES == 8

ResponseCodes ==
    {"Success", "Unknown", "InvalidPacketType", "InvalidCommand",
     "InsufficientFunctionParameters"}

\* code.to_u8().unwrap(): the discriminant
ResponseCode_to_u8(code) ==
    CASE code = "Success" -> 0
      [] code = "Unknown" -> 1
      [] code = "InvalidPacketType" -> 2
      [] code = "InvalidCommand" -> 3
      [] code = "InsufficientFunctionParameters" -> 5

\* ResponseCode::from_u8(v): Some(code) or None
ResponseCode_from_u8(v) ==
    IF \E c \in ResponseCodes : ResponseCode_to_u8(c) = v
    THEN [some |-> TRUE,
          val  |-> CHOOSE c \in ResponseCodes : ResponseCode_to_u8(c) = v]
    ELSE [some |-> FALSE, val |-> "Success"]

\* Mutant of to_u8: Identify is given 2, the tag of Cmd.
to_u8_identify_as_cmd(typ) ==
    CASE typ.variant = "Connect" -> 0
      [] typ.variant = "Disconnect" -> 1
      [] typ.variant = "Cmd" -> 2
      [] typ.variant = "Identify" -> 2
      [] typ.variant = "Status" -> 4
      [] typ.variant = "Response" -> 5

\* PacketType::to_u8
to_u8(typ) ==
    CASE typ.variant = "Connect" -> 0
      [] typ.variant = "Disconnect" -> 1
      [] typ.variant = "Cmd" -> 2
      [] typ.variant = "Identify" -> 3
      [] typ.variant = "Status" -> 4
      [] typ.variant = "Response" -> 5

\* The bytes Packet::serialize writes (it then returns Ok(())).
Packet_serialize(self) ==
    write_u16_le(self.id)
        \o <<to_u8(self.typ)>>
        \o CASE self.typ.variant = "Connect" -> <<>>
             [] self.typ.variant = "Disconnect" -> <<>>
             [] self.typ.variant = "Cmd" ->
                    <<self.typ.index>>
                        \o <<AsU8(Len(self.typ.params))>>
                        \o self.typ.params
             [] self.typ.variant = "Identify" ->
                    Identify_serialize(self.typ.identify)
             [] self.typ.variant = "Status" ->
                    self.typ.data \o self.typ.data
             [] self.typ.variant = "Response" ->
                    <<ResponseCode_to_u8(self.typ.code)>> \o self.typ.data

\* The local `typ` of Packet::deserialize: the match on the tag byte, over
\* the reader r left after the id and the tag.  A failed unwrap panics.
Packet_deserialize_typ(tag, r) ==
    CASE tag = 0 -> [kind |-> "Ok", val |-> [variant |-> "Connect"]]
      [] tag = 1 -> [kind |-> "Ok", val |-> [variant |-> "Disconnect"]]
      [] tag = 2 ->
            LET index == read_u8(r)
            IN  IF ~index.ok THEN Panic
                ELSE
                LET num_params == read_u8(index.rest)
                IN  IF ~num_params.ok THEN Panic
                    ELSE
                    LET params == read_exact(num_params.rest, num_params.val)
                    IN  IF ~params.ok THEN Panic
                        ELSE [kind |-> "Ok",
                              val  |-> [variant |-> "Cmd",
                                        index |-> index.val,
                                        params |-> params.val]]
      [] tag = 3 ->
            LET ident == Identify_deserialize(r)
            IN  IF ident.kind # "Ok" THEN Panic
                ELSE [kind |-> "Ok",
                      val  |-> [variant |-> "Identify", identify |-> ident.val]]
      [] tag = 4 ->
            LET data == read_exact(r, NUM_STATUS_BYTES)
            IN  IF ~data.ok THEN Panic
                ELSE [kind |-> "Ok",
                      val  |-> [variant |-> "Status", data |-> data.val]]
      [] tag = 5 ->
            LET code == read_u8(r)
            IN  IF ~code.ok THEN Panic
                ELSE IF ~ResponseCode_from_u8(code.val).some THEN Panic
                ELSE
                LET data_len == read_u8(code.rest)
                IN  IF ~data_len.ok THEN Panic
                    ELSE
                    LET data == IF data_len.val > 0
                                THEN read_exact(data_len.rest, data_len.val)
                                ELSE [ok |-> TRUE, val |-> <<>>,
                                      rest |-> data_len.rest]
                    IN  IF ~data.ok THEN Panic
                        ELSE [kind |-> "Ok",
                              val  |-> [variant |-> "Response",
                                        code |-> ResponseCode_from_u8(code.val).val,
                                        data |-> data.val]]
      [] OTHER -> Err("InvalidPacketType")

\* Packet::deserialize: the id and the tag are read, `typ` is computed and
\* dropped, and line 194 returns Err(InvalidResponseCode(0)).
Packet_deserialize(r) ==
    LET id == read_u16_le(r)
    IN  IF ~id.ok THEN Panic
        ELSE
        LET tag == read_u8(id.rest)
        IN  IF ~tag.ok THEN Panic
            ELSE
            LET typ == Packet_deserialize_typ(tag.val, tag.rest)
            IN  IF typ.kind = "Panic" THEN Panic
                ELSE [kind |-> "Err", err |-> "InvalidResponseCode", code |-> 0]

\* The packets the codec is tried on.
MaxParams == 2

MaxData == 2

ByteSamples == {0, 255}

IdSamples == {0, 4660, 65535}

StatusSamples ==
    {[i \in 1..NUM_STATUS_BYTES |-> 0],
     [i \in 1..NUM_STATUS_BYTES |-> i],
     [i \in 1..NUM_STATUS_BYTES |-> 255]}

PacketTypes ==
    {[variant |-> "Connect"], [variant |-> "Disconnect"]}
    \cup [variant : {"Cmd"}, index : {0, 7},
          params : SeqsUpTo(ByteSamples, MaxParams)]
    \cup [variant : {"Identify"}, identify : Identifies]
    \cup [variant : {"Status"}, data : StatusSamples]
    \cup [variant : {"Response"}, code : ResponseCodes,
          data : SeqsUpTo(ByteSamples, MaxData)]

Packets == [id : IdSamples, typ : PacketTypes]

\* Byte streams that come from a peer rather than from Packet::serialize:
\* tags no variant has, and response codes no ResponseCode has.
ForeignStreams ==
    {<<0, 0, 6>>, <<1, 0, 99>>, <<52, 18, 99, 0, 0>>, <<0, 0, 255, 1>>,
     <<0, 0, 5, 4, 0>>, <<0, 0, 5, 6, 0>>, <<0, 0, 5, 1, 0>>,
     <<0, 0, 5, 5, 2, 7, 7>>}

KnownTags == {0, 1, 2, 3, 4, 5}

IsStrictPrefix(p, q) == Len(p) < Len(q) /\ p = SubSeq(q, 1, Len(p))

InitPacket ==
    /\ state = new
    /\ forced = {}
    /\ version_in = None
    /\ identify = None
    /\ packet \in Packets
    /\ writer = <<>>
    /\ reader = <<>>
    /\ result = None
    /\ pc = "start"

PacketSerialize ==
    /\ pc = "start"
    /\ writer' = Packet_serialize(packet)
    /\ pc' = "written"
    /\ UNCHANGED <<state, forced, version_in, identify, packet, reader, result>>

\* The bytes written reach the reader whole.
PacketLoad ==
    /\ pc = "written"
    /\ reader' = writer
    /\ pc' = "loaded"
    /\ UNCHANGED <<state, forced, version_in, identify, packet, writer, result>>

\* The stream ends before the packet does.
PacketTruncate ==
    /\ pc = "written"
    /\ \E n \in 0..(Len(writer) - 1) : reader' = SubSeq(writer, 1, n)
    /\ pc' = "loaded"
    /\ UNCHANGED <<state, forced, version_in, identify, packet, writer, result>>

\* The reader holds bytes of a peer.
PacketReceive ==
    /\ pc = "written"
    /\ reader' \in ForeignStreams
    /\ pc' = "loaded"
    /\ UNCHANGED <<state, forced, version_in, identify, packet, writer, result>>

PacketDeserialize ==
    /\ pc = "loaded"
    /\ result' = Packet_deserialize(reader)
    /\ pc' = "read"
    /\ UNCHANGED <<state, forced, version_in, identify, packet, writer, reader>>

NextPacket ==
    \/ PacketSerialize
    \/ PacketLoad
    \/ PacketTruncate
    \/ PacketReceive
    \/ PacketDeserialize

SpecPacket == InitPacket /\ [][NextPacket]_vars

(***************************************************************************)
(* The accessory invariants and the idempotence of the operations.         *)
(***************************************************************************)

\* C2 as stated: in every state reachable from new() by the nine control
\* operations, led_bar_active false implies led_bar false.
LedBarOffWhenInactive == ~state.led_bar_active => ~state.led_bar

\* C2, amended: in every state reachable from new() by control operations
\* among which force_led_bar was never called, led_bar_active false implies
\* led_bar false.
LedBarOffWhenInactiveUnforced ==
    "led_bar" \notin forced => (~state.led_bar_active => ~state.led_bar)

\* high_beam was switched on while the bar was inactive and never forced.
LedBarInactiveHighBeamReached ==
    /\ "led_bar" \notin forced
    /\ ~state.led_bar_active
    /\ state.high_beam
    /\ ~state.led_bar

\* C3 as stated: in every state reachable from new() by the nine control
\* operations, reverse false implies reverse_lights false and reverse_camera
\* false.
ReverseOffClearsOutputs ==
    ~state.reverse => (~state.reverse_lights /\ ~state.reverse_camera)

\* C3, amended: in every state reachable from new() by the control
\* operations, if reverse is false then reverse_lights is false unless
\* force_reverse_lights was called, and reverse_camera is false unless
\* force_reverse_camera was called.
ReverseOffClearsUnforcedOutputs ==
    ~state.reverse =>
        /\ "reverse_lights" \notin forced => ~state.reverse_lights
        /\ "reverse_camera" \notin forced => ~state.reverse_camera

\* Reverse is off with the reverse lights activated, nothing forced.
ReverseOffActiveReached ==
    /\ forced = {}
    /\ ~state.reverse
    /\ state.reverse_lights_active
    /\ ~state.reverse_lights
    /\ ~state.reverse_camera

\* C4 as stated: in every state reachable from new() by the nine control
\* operations, reverse true implies reverse_camera true and reverse_lights
\* equal to reverse_lights_active.
ReverseOnDerivesOutputs ==
    state.reverse =>
        /\ state.reverse_camera
        /\ state.reverse_lights <=> state.reverse_lights_active

\* C4, amended: in every state reachable from new() by the control
\* operations, if reverse is true then reverse_camera is true unless
\* force_reverse_camera was called, and reverse_lights equals
\* reverse_lights_active unless force_reverse_lights was called.
ReverseOnDerivesUnforcedOutputs ==
    state.reverse =>
        /\ "reverse_camera" \notin forced => state.reverse_camera
        /\ "reverse_lights" \notin forced =>
               (state.reverse_lights <=> state.reverse_lights_active)

\* Reverse is on with the reverse lights activated and lit, nothing forced.
ReverseOnActiveReached ==
    /\ forced = {}
    /\ state.reverse
    /\ state.reverse_lights_active
    /\ state.reverse_lights
    /\ state.reverse_camera

\* C5: from every state (all 2^9 field combinations are reachable), each of
\* the nine control operations applied twice with the same argument yields
\* the same nine fields as applied once.
ControlOperationsIdempotent ==
    \A on \in BOOLEAN :
        /\ set_led_bar_active(set_led_bar_active(state, on), on)
               = set_led_bar_active(state, on)
        /\ set_led_bar_low_mode(set_led_bar_low_mode(state, on), on)
               = set_led_bar_low_mode(state, on)
        /\ force_led_bar(force_led_bar(state, on), on)
               = force_led_bar(state, on)
        /\ set_trunk_lights(set_trunk_lights(state, on), on)
               = set_trunk_lights(state, on)
        /\ set_reverse_lights_active(set_reverse_lights_active(state, on), on)
               = set_reverse_lights_active(state, on)
        /\ force_reverse_lights(force_reverse_lights(state, on), on)
               = force_reverse_lights(state, on)
        /\ force_reverse_camera(force_reverse_camera(state, on), on)
               = force_reverse_camera(state, on)
        /\ reverse(reverse(state, on), on) = reverse(state, on)
        /\ high_beam(high_beam(state, on), on) = high_beam(state, on)

\* A state no sequence of non-force operations reaches, on which every
\* derived field is changed by the operation that derives it.
ForcedStateReached ==
    /\ state.led_bar /\ ~state.led_bar_active /\ state.high_beam
    /\ state.reverse_lights /\ state.reverse_camera /\ ~state.reverse
    /\ state.reverse_lights_active
    /\ set_led_bar_active(state, TRUE) # set_led_bar_active(state, FALSE)
    /\ high_beam(state, FALSE) # state
    /\ reverse(state, FALSE) # state

(***************************************************************************)
(* The state codec and the version packing.                                *)
(***************************************************************************)

\* C6: for every combination of the nine fields, deserialize applied to the
\* two bytes serialize wrote returns Ok with a state equal to the original,
\* field by field.
RSNavStateRoundTrip ==
    pc = "read" =>
        /\ result.kind = "Ok"
        /\ \A f \in DOMAIN state : result.val[f] = state[f]
        /\ DOMAIN result.val = DOMAIN state

\* A state with all nine flags set has been written as 0x0f 0x1f and read.
AllFlagsRoundTripped ==
    /\ pc = "read"
    /\ \A f \in DOMAIN state : state[f]
    /\ reader = <<15, 31>>
    /\ result.kind = "Ok"

\* C8: Version::new(major, minor, patch) is a 16-bit value whose major() is
\* major mod 64, minor() is minor mod 64 and patch() is patch mod 16, the
\* three fields lying in bits 15..10, 9..4 and 3..0 without overlap.
VersionPacking ==
    pc = "done" =>
        /\ result.val < 65536
        /\ Version_major(result.val) = version_in.major % 64
        /\ Version_minor(result.val) = version_in.minor % 64
        /\ Version_patch(result.val) = version_in.patch % 16
        /\ result.val = (version_in.major % 64) * 1024
                        + (version_in.minor % 64) * 16
                        + (version_in.patch % 16)

\* Version::new(70, 63, 255) has been built: major 6, minor 63, patch 15.
VersionTruncationReached ==
    /\ pc = "done"
    /\ version_in = [major |-> 70, minor |-> 63, patch |-> 255]
    /\ Version_major(result.val) = 6
    /\ Version_minor(result.val) = 63
    /\ Version_patch(result.val) = 15

(***************************************************************************)
(* The Identify codec.                                                     *)
(***************************************************************************)

\* C7: Identify::deserialize applied to the bytes Identify::serialize wrote
\* (whatever follows them in the stream) returns Ok with the same name,
\* version and num_cmds, and consumes exactly 4 + name length bytes.
IdentifyRoundTrip ==
    pc = "read" =>
        /\ result.kind = "Ok"
        /\ result.val.name = identify.name
        /\ result.val.version = identify.version
        /\ result.val.num_cmds = identify.num_cmds
        /\ Len(reader) - Len(result.rest) = 4 + Len(identify.name)
        /\ reader = writer \o result.rest

\* An Identify with a 3-byte name holding a 2-byte character has been read
\* back from a stream with two more bytes behind it.
IdentifyWithTrailerRead ==
    /\ pc = "read"
    /\ identify.name = <<65, 195, 169>>
    /\ identify.num_cmds = 255
    /\ Len(reader) = 9
    /\ result.kind = "Ok"
    /\ result.rest = <<255, 0>>

(***************************************************************************)
(* The Packet codec.                                                       *)
(***************************************************************************)
IoErrors ==
    {"PacketReadFailed", "IdentifyErrorReadingVersion",
     "IdentifyErrorReadingNumCmds", "IdentifyErrorReadingNameLength",
     "IdentifyErrorReadingName", "StateDeserializeFailed"}

\* C1: Packet::deserialize applied to the bytes Packet::serialize(p) wrote
\* returns Ok with a packet whose id and variant payload equal those of p.
PacketRoundTrip ==
    (pc = "read" /\ reader = Packet_serialize(packet)) =>
        /\ result.kind = "Ok"
        /\ result.val = packet

\* C9: Packet::deserialize on bytes whose third byte is the tag of no
\* variant returns the error InvalidPacketType, and no packet.
UnknownTagIsInvalidPacketType ==
    (pc = "read" /\ Len(reader) >= 3 /\ reader[3] \notin KnownTags) =>
        result = Err("InvalidPacketType")

\* C10: Packet::deserialize on a strict prefix of a packet's encoding
\* returns an I/O-shortfall error to the caller and does not panic.
TruncatedIsIoError ==
    (pc = "read" /\ IsStrictPrefix(reader, Packet_serialize(packet))) =>
        /\ result.kind = "Err"
        /\ result.err \in IoErrors

\* C11: when Packet::deserialize reads a response-code byte v that is no
\* ResponseCode value, it fails with Error::InvalidResponseCode(v): it does
\* not panic and does not take the byte for ResponseCode::Unknown.
UndefinedResponseCodeIsReported ==
    (/\ pc = "read"
     /\ Len(reader) >= 4
     /\ reader[3] = 5
     /\ ~ResponseCode_from_u8(reader[4]).some) =>
        result = [kind |-> "Err", err |-> "InvalidResponseCode",
                  code |-> reader[4]]

\* The tags of the wire table (Connect 0, Disconnect 1, Error 2, Cmd 3,
\* Identify 4, Status 5, OnConnect 6, OnCmd 7, OnIdentify 8, OnStatus 9) for
\* the variants of PacketType that the table names.
WireTableVariants == {"Connect", "Disconnect", "Cmd", "Identify", "Status"}

WireTableTag(variant) ==
    CASE variant = "Connect" -> 0
      [] variant = "Disconnect" -> 1
      [] variant = "Cmd" -> 3
      [] variant = "Identify" -> 4
      [] variant = "Status" -> 5

VariantTag(variant) ==
    CASE variant = "Connect" -> 0
      [] variant = "Disconnect" -> 1
      [] variant = "Cmd" -> 2
      [] variant = "Identify" -> 3
      [] variant = "Status" -> 4
      [] variant = "Response" -> 5

StatusWrittenVerbatim ==
    (pc # "start" /\ packet.typ.variant = "Status") =>
        /\ Len(writer) = 2 + 1 + NUM_STATUS_BYTES
        /\ SubSeqFrom(writer, 4) = packet.typ.data

(***************************************************************************)
(* The effects of the control operations.                                  *)
(***************************************************************************)
OtherFields(fields) == DOMAIN new \ fields

\* C14: from every state, reverse(true) leaves reverse true, reverse_camera
\* true and reverse_lights equal to reverse_lights_active; reverse(false)
\* leaves reverse, reverse_lights and reverse_camera false; the other
\* fields are unchanged.
ReverseEffect ==
    LET t == reverse(state, TRUE)
        f == reverse(state, FALSE)
        touched == {"reverse", "reverse_camera", "reverse_lights"}
    IN  /\ t.reverse
        /\ t.reverse_camera
        /\ t.reverse_lights = state.reverse_lights_active
        /\ ~f.reverse /\ ~f.reverse_lights /\ ~f.reverse_camera
        /\ \A x \in OtherFields(touched) : t[x] = state[x] /\ f[x] = state[x]

\* C15: from every reachable state, set_led_bar_active(true) then
\* high_beam(true) leaves led_bar true and a following high_beam(false)
\* leaves it false; and high_beam(false) leaves led_bar false from every
\* state, also when led_bar_active is false.
HighBeamDrivesLedBar ==
    LET s1 == set_led_bar_active(state, TRUE)
        s2 == high_beam(s1, TRUE)
        s3 == high_beam(s2, FALSE)
    IN  /\ s2.led_bar
        /\ ~s3.led_bar
        /\ ~high_beam(state, FALSE).led_bar

\* The bar is lit though not activated, with the high beam on: the state
\* from which high_beam(false) has to clear an inactive bar.
LitInactiveBarReached ==
    /\ state.led_bar
    /\ ~state.led_bar_active
    /\ state.high_beam
    /\ high_beam(state, FALSE) # [state EXCEPT !.high_beam = FALSE]

\* C16: a forced value stays until an operation on the same output runs.
\* Every step of an operation other than set_led_bar_active, high_beam and
\* force_led_bar leaves led_bar as it is (so as force_led_bar left it);
\* every step of an operation other than set_reverse_lights_active, reverse
\* and force_reverse_lights leaves reverse_lights as it is; every step of
\* an operation other than reverse and force_reverse_camera leaves
\* reverse_camera as it is.
ForcedValueKept ==
    [][ /\ (\/ SetLedBarLowMode \/ SetTrunkLights \/ SetReverseLightsActive
            \/ ForceReverseLights \/ ForceReverseCamera \/ Reverse)
               => state'.led_bar = state.led_bar
        /\ (\/ SetLedBarActive \/ SetLedBarLowMode \/ ForceLedBar
            \/ SetTrunkLights \/ ForceReverseCamera \/ HighBeam)
               => state'.reverse_lights = state.reverse_lights
        /\ (\/ SetLedBarActive \/ SetLedBarLowMode \/ ForceLedBar
            \/ SetTrunkLights \/ SetReverseLightsActive
            \/ ForceReverseLights \/ HighBeam)
               => state'.reverse_camera = state.reverse_camera
      ]_vars

\* All three outputs have been forced to values their derivations would not
\* give, and operations on the other fields have run since new().
ForcedValuesStanding ==
    /\ forced = {"led_bar", "reverse_lights", "reverse_camera"}
    /\ state.led_bar /\ ~state.led_bar_active
    /\ state.reverse_lights /\ ~state.reverse_lights_active
    /\ ~state.reverse_camera /\ state.reverse
    /\ state.trunk_lights /\ state.led_bar_low_mode /\ state.high_beam

\* C17: set_led_bar_low_mode(on) changes only led_bar_low_mode and
\* set_trunk_lights(on) changes only trunk_lights, the other eight fields
\* staying as they are; no other control operation changes either flag.
IndependentFlags ==
    \A on \in BOOLEAN :
        LET a == set_led_bar_low_mode(state, on)
            b == set_trunk_lights(state, on)
            others == {set_led_bar_active(state, on), force_led_bar(state, on),
                       set_reverse_lights_active(state, on),
                       force_reverse_lights(state, on),
                       force_reverse_camera(state, on),
                       reverse(state, on), high_beam(state, on)}
        IN  /\ a.led_bar_low_mode = on
            /\ \A x \in OtherFields({"led_bar_low_mode"}) : a[x] = state[x]
            /\ b.trunk_lights = on
            /\ \A x \in OtherFields({"trunk_lights"}) : b[x] = state[x]
            /\ \A r \in others :
                   /\ r.led_bar_low_mode = state.led_bar_low_mode
                   /\ r.trunk_lights = state.trunk_lights

\* Low mode is on and the trunk lights are off while every other field is
\* set: each of the two flags has been set apart from the rest.
FlagsSetApartReached ==
    /\ state.led_bar_low_mode
    /\ ~state.trunk_lights
    /\ \A x \in OtherFields({"led_bar_low_mode", "trunk_lights"}) : state[x]

\* C19: in every state reachable from new() by the non-force operations
\* only, led_bar = (led_bar_active and high_beam), reverse_lights =
\* (reverse and reverse_lights_active) and reverse_camera = reverse.
UnforcedOutputsDerived ==
    forced = {} =>
        /\ state.led_bar = (state.led_bar_active /\ state.high_beam)
        /\ state.reverse_lights
               = (state.reverse /\ state.reverse_lights_active)
        /\ state.reverse_camera = state.reverse

\* Without any force call the bar is dark under high beam because it is
\* not activated, and the reverse lights are lit.
UnforcedDerivedReached ==
    /\ forced = {}
    /\ state.high_beam /\ ~state.led_bar_active /\ ~state.led_bar
    /\ state.reverse /\ state.reverse_lights_active /\ state.reverse_lights
    /\ state.reverse_camera

\* C20: from every state, forced or not, and for all booleans a and b,
\* set_led_bar_active(a) then high_beam(b) ends in the same state as
\* high_beam(b) then set_led_bar_active(a), and
\* set_reverse_lights_active(a) then reverse(b) ends in the same state as
\* reverse(b) then set_reverse_lights_active(a).
ActivationCommutesWithInput ==
    \A a, b \in BOOLEAN :
        /\ high_beam(set_led_bar_active(state, a), b)
               = set_led_bar_active(high_beam(state, b), a)
        /\ reverse(set_reverse_lights_active(state, a), b)
               = set_reverse_lights_active(reverse(state, b), a)

\* A forced state on which the two orders pass through different states:
\* after high_beam(true) the forced bar is still lit, after
\* set_led_bar_active(false) it is not; likewise for the reverse lights.
ForcedBeforeCommuteReached ==
    /\ forced = {"led_bar", "reverse_lights"}
    /\ state.led_bar /\ ~state.led_bar_active /\ ~state.high_beam
    /\ state.reverse_lights /\ ~state.reverse_lights_active /\ ~state.reverse
    /\ high_beam(state, TRUE).led_bar
    /\ ~set_led_bar_active(state, FALSE).led_bar
    /\ reverse(state, TRUE).reverse_lights
    /\ ~set_reverse_lights_active(state, FALSE).reverse_lights

\* C18: RSNavState::serialize writes exactly 2 bytes whose bits 4..7 of
\* byte 0 and bits 5..7 of byte 1 are 0, and RSNavState::deserialize
\* ignores those bits: the bytes read give the same result as the same
\* bytes with the unused bits cleared, so two inputs that differ only in
\* unused bits give equal results.
UnusedBitsZeroAndIgnored ==
    /\ pc # "start" =>
           /\ Len(writer) = 2
           /\ writer[1] < 16
           /\ writer[2] < 32
    /\ pc = "read" =>
           /\ result.kind = "Ok"
           /\ result = RSNavState_deserialize(<<reader[1] % 16,
                                                reader[2] % 32>>)

\* The bytes 0xf5 0xe2, all unused bits set, have been read as the state
\* that serializes to 0x05 0x02.
PaddedBytesRead ==
    /\ pc = "read"
    /\ reader = <<245, 226>>
    /\ writer = <<5, 2>>
    /\ result.kind = "Ok"
    /\ result.val = state

====
